---- MODULE Spec2Model ----
(***************************************************************************)
(* Model of src/script.js, the "Catch the Nodes" mini-game: a 20 s round,  *)
(* six drifting orbs, combo scoring, a best score kept in localStorage.    *)
(*                                                                         *)
(* Units.  Times are integer milliseconds (performance.now(), the frame    *)
(* timestamp).  Positions and surface sizes are integer thousandths of a   *)
(* pixel, so that  x += vx * dt  with vx in px/s and dt in ms is exact:    *)
(* the source's 12 px margin is 12000 and its 20 px spawn inset is 20000.  *)
(* The host delivers timer, interval and frame callbacks whenever they are *)
(* pending; the model does not tie their delivery to the clock reading.    *)
(***************************************************************************)
EXTENDS Integers, Sequences, FiniteSets, TLC

VARIABLES
  score, best, timeLeft, running, lastHitTime, combo,   \* script.js 27-32
  orbs, raf, lastTs, timerId, bounds,                   \* script.js 34-38
  prefersReduced,                                       \* script.js 24
  localStorage,      \* the page's storage: key -> string
  playBtnDisabled,   \* playBtn.disabled
  area,              \* ids of the orb elements attached to the game area
  frames,            \* handles of the pending requestAnimationFrame callbacks
  intervals,         \* handles of the active setInterval timers
  respawns,          \* pending respawn timeouts: [orb, round] of the hit
  clock,             \* the reading of performance.now()
  orbSeq,            \* number of orb objects created so far (object identity)
  round,             \* history: number of startGame calls so far
  ticks,             \* history: countdown ticks delivered since startGame
  removed,           \* the orb objects that have left the list (their
                     \* listeners' closures keep them)
  hitLog,            \* history: <<t, combo, points, orb>> of the round's hits
  prevHit,           \* history: time of the last successful hit, or null
  ignoredLog         \* history: why hitOrb calls have returned at line 81

vars == <<score, best, timeLeft, running, lastHitTime, combo, orbs, raf,
          lastTs, timerId, bounds, prefersReduced, localStorage,
          playBtnDisabled, area, frames, intervals, respawns, clock, orbSeq,
          round, ticks, removed, hitLog, prevHit, ignoredLog>>

\* ------------------------------------------------------------- settings
ROUND_SECONDS == 20
ORB_COUNT == 6
BASE_POINTS == 10
COMBO_WINDOW_MS == 800
SPEED_MIN == 40
SPEED_MAX == 140

\* JavaScript's null, for raf, lastTs, timerId (handles and times are >= 0)
null == -1

\* ------------------------------------------------------------- bounds
\* orb objects created in one run (caps rounds and hits)
MaxOrbs == 13
\* the same for the scenario specification
ScenarioMaxOrbs == 9
\* the same for the specification of motion with the countdown
CommuteMaxOrbs == 7

\* ------------------------------------------------------------- utilities
Min(a, b) == IF a < b THEN a ELSE b
Max(a, b) == IF a > b THEN a ELSE b
Abs(a) == IF a < 0 THEN -a ELSE a

\* mutant: only the lower end applied
clampLow(v, min, max) == Max(min, v)

clamp(v, min, max) == Max(min, Min(max, v))

\* Math.random() * (max - min) + min, for the sample r[1] / r[2] in [0, 1)
rand(r, min, max) == (r[1] * (max - min)) \div r[2] + min

\* String(n) and Number(s) for the non-negative integers the game stores
DigitChars == <<"0", "1", "2", "3", "4", "5", "6", "7", "8", "9">>

RECURSIVE String(_)
String(n) ==
  IF n < 10 THEN <<DigitChars[n + 1]>>
  ELSE Append(String(n \div 10), DigitChars[(n % 10) + 1])

DigitValue(c) == CHOOSE d \in 0..9 : DigitChars[d + 1] = c

RECURSIVE Number(_)
Number(s) ==
  IF Len(s) = 0 THEN 0
  ELSE 10 * Number(SubSeq(s, 1, Len(s) - 1)) + DigitValue(s[Len(s)])

BEST_KEY == "jk_best_score"

NoStorage == [k \in {} |-> <<>>]

\* Number(localStorage.getItem('jk_best_score') || 0)
LoadBest(ls) ==
  IF BEST_KEY \notin DOMAIN ls THEN 0
  ELSE IF Len(ls[BEST_KEY]) = 0 THEN 0
  ELSE Number(ls[BEST_KEY])

\* localStorage.setItem('jk_best_score', String(best))
StoreBest(ls, b) == [k \in {BEST_KEY} |-> String(b)]

\* el.style.left = `${v}px`  and  parseFloat(el.style.left)
PxString(v) == [num |-> v, unit |-> "px"]
parseFloat(s) == s.num

\* measure(): the surface's current size, px -> thousandths
measure(size) == [w |-> size[1] * 1000, h |-> size[2] * 1000]

\* the smallest handle the host has not handed out among `used`
NewHandle(used) == CHOOSE h \in 1..(Cardinality(used) + 1) : h \notin used

OrbIds(os) == {os[i].id : i \in 1..Len(os)}

\* the orb objects of a list
Elems(os) == {os[i] : i \in 1..Len(os)}

\* mutant: the pending frame callback is left pending
cancelNoFrame(fs, h) == fs

\* cancelAnimationFrame(h) on the pending frame callbacks fs
cancelAnimationFrame(fs, h) == fs \ {h}

\* mutant: the interval is left active
clearNoInterval(is, h) == is

\* clearInterval(h) on the active intervals is
clearInterval(is, h) == is \ {h}

\* ------------------------------------------------------------- makeOrb
\* d: the Math.random() samples of one makeOrb call.  d.rx, d.ry, d.rs are
\* fractions <<num, den>>; d.dir = <<c, s, n>> stands for an angle whose
\* cosine is c/n and sine is s/n.
makeOrb(id, d, b, reduced) ==
  LET left  == PxString(rand(d.rx, 20000, b.w - 20000))
      top   == PxString(rand(d.ry, 20000, b.h - 20000))
      speed == IF reduced THEN 0 ELSE rand(d.rs, SPEED_MIN, SPEED_MAX)
  IN  [id |-> id,
       x |-> parseFloat(left), y |-> parseFloat(top),
       vx |-> (d.dir[1] * speed) \div d.dir[3],
       vy |-> (d.dir[2] * speed) \div d.dir[3],
       alive |-> TRUE]

\* spawnOrbs(n): n makeOrb calls pushed in order; ds[i] feeds the i-th call
spawnOrbs(os, n, ds, b, reduced, seq) ==
  os \o [i \in 1..n |-> makeOrb(seq + i, ds[i], b, reduced)]

\* ------------------------------------------------------------- scoring
\* mutant: only the running flag is tested
IgnoredOnlyIdle(run, alive) == ~run

\* hitOrb's guard: the call returns at once
Ignored(run, alive) == ~run \/ ~alive

\* mutant: the window test made strict
NextComboStrict(t, last, c) ==
  IF t - last < COMBO_WINDOW_MS THEN c + 1 ELSE 0

\* hitOrb's combo update for a hit at time t
NextCombo(t, last, c) ==
  IF t - last <= COMBO_WINDOW_MS THEN c + 1 ELSE 0

\* mutant: the multiplier left uncapped
PointsUncapped(c) == BASE_POINTS * (1 + c)

\* hitOrb's points for the combo value after the update
Points(c) == BASE_POINTS * (1 + Min(c, 5))

\* ------------------------------------------------------------- motion
\* mutant: the elapsed time without its cap
FrameDtUncapped(ts, last) == ts - (IF last = null THEN ts ELSE last)

\* the frame's elapsed time in ms: Math.min(0.032, (ts - lastTs) / 1000) s
FrameDt(ts, last) == Min(32, ts - (IF last = null THEN ts ELSE last))

\* mutant: the right and bottom bounces turn the orb but do not put it back
stepOrbNoClamp(o, dt, b) ==
  IF ~o.alive THEN o
  ELSE
    LET x1  == o.x + o.vx * dt
        y1  == o.y + o.vy * dt
        x2  == IF x1 < 12000 THEN 12000 ELSE x1
        vx2 == IF x1 < 12000 THEN Abs(o.vx) ELSE o.vx
        y2  == IF y1 < 12000 THEN 12000 ELSE y1
        vy2 == IF y1 < 12000 THEN Abs(o.vy) ELSE o.vy
        vx3 == IF x2 > b.w - 12000 THEN -Abs(vx2) ELSE vx2
        vy3 == IF y2 > b.h - 12000 THEN -Abs(vy2) ELSE vy2
    IN  [o EXCEPT !.x = x2, !.y = y2, !.vx = vx3, !.vy = vy3]

\* mutant: the top bounce turns vx instead of vy
stepOrbWrongAxis(o, dt, b) ==
  IF ~o.alive THEN o
  ELSE
    LET x1  == o.x + o.vx * dt
        y1  == o.y + o.vy * dt
        x2  == IF x1 < 12000 THEN 12000 ELSE x1
        vx2 == IF x1 < 12000 THEN Abs(o.vx) ELSE o.vx
        y2  == IF y1 < 12000 THEN 12000 ELSE y1
        vxb == IF y1 < 12000 THEN Abs(vx2) ELSE vx2
        x3  == IF x2 > b.w - 12000 THEN b.w - 12000 ELSE x2
        vx3 == IF x2 > b.w - 12000 THEN -Abs(vxb) ELSE vxb
        y3  == IF y2 > b.h - 12000 THEN b.h - 12000 ELSE y2
        vy3 == IF y2 > b.h - 12000 THEN -Abs(o.vy) ELSE o.vy
    IN  [o EXCEPT !.x = x3, !.y = y3, !.vx = vx3, !.vy = vy3]

\* one orb's part of step(): integrate, then the four bounce tests in order
stepOrb(o, dt, b) ==
  IF ~o.alive THEN o
  ELSE
    LET x1  == o.x + o.vx * dt
        y1  == o.y + o.vy * dt
        x2  == IF x1 < 12000 THEN 12000 ELSE x1
        vx2 == IF x1 < 12000 THEN Abs(o.vx) ELSE o.vx
        y2  == IF y1 < 12000 THEN 12000 ELSE y1
        vy2 == IF y1 < 12000 THEN Abs(o.vy) ELSE o.vy
        x3  == IF x2 > b.w - 12000 THEN b.w - 12000 ELSE x2
        vx3 == IF x2 > b.w - 12000 THEN -Abs(vx2) ELSE vx2
        y3  == IF y2 > b.h - 12000 THEN b.h - 12000 ELSE y2
        vy3 == IF y2 > b.h - 12000 THEN -Abs(vy2) ELSE vy2
    IN  [o EXCEPT !.x = x3, !.y = y3, !.vx = vx3, !.vy = vy3]

\* the resize listener's loop body
resizeOrb(o, b) ==
  [o EXCEPT !.x = clamp(o.x, 12000, b.w - 12000),
            !.y = clamp(o.y, 12000, b.h - 12000)]

\* ------------------------------------------------------------- environments
\* What the page and the player supply in one specification: surface sizes
\* (px), Math.random() samples, the clock readings (ms) at which events are
\* handled, stored best scores, the positions in the orb list of the orbs
\* the player activates, and the ids of the orbs on which hitOrb is called
\* after they have left the list.
Draw(rx, ry, rs, dir) == [rx |-> rx, ry |-> ry, rs |-> rs, dir |-> dir]

\* the game environment: one surface size, motion reduced, every orb alike
GameDraw == Draw(<<1, 2>>, <<0, 1>>, <<0, 1>>, <<5, 0, 5>>)

GameEnv ==
  [sizes    |-> {<<300, 200>>},
   tapes    |-> {[i \in 1..ORB_COUNT |-> GameDraw]},
   draws    |-> {GameDraw},
   instants |-> {0, 800, 1700},
   stores   |-> {NoStorage, StoreBest(NoStorage, 20)},
   reduced  |-> {TRUE},
   slots    |-> {1},
   calls    |-> {1, 2},
   maxOrbs  |-> MaxOrbs]

\* the motion environment: small surfaces, a hidden one (0 px), some below
\* twice the 12 px margin (20 px) or the 20 px spawn inset (30 px); six orbs:
\* fast ones heading for each edge, a diagonal one, a slow one
PhysTape ==
  <<Draw(<<0, 1>>,  <<1, 2>>,  <<99, 100>>, <<-5, 0, 5>>),
    Draw(<<9, 10>>, <<1, 2>>,  <<99, 100>>, <<5, 0, 5>>),
    Draw(<<1, 2>>,  <<0, 1>>,  <<99, 100>>, <<0, -5, 5>>),
    Draw(<<1, 2>>,  <<9, 10>>, <<99, 100>>, <<0, 5, 5>>),
    Draw(<<0, 1>>,  <<9, 10>>, <<19, 20>>,  <<-3, 4, 5>>),
    Draw(<<1, 2>>,  <<1, 2>>,  <<0, 1>>,    <<4, 3, 5>>)>>

PhysEnv ==
  [sizes    |-> {<<48, 48>>, <<30, 20>>, <<20, 30>>, <<0, 0>>},
   tapes    |-> {PhysTape},
   draws    |-> {PhysTape[1]},
   instants |-> {0, 16, 32, 48, 80},
   stores   |-> {NoStorage},
   reduced  |-> BOOLEAN,
   slots    |-> {1},
   calls    |-> {},
   maxOrbs  |-> ORB_COUNT]

\* the game environment for hitOrb called on orbs that have left the list
CallEnv == [GameEnv EXCEPT !.stores = {NoStorage}]

\* motion and countdown together: one 48 px surface, the six moving orbs of
\* the motion environment, one round
CommuteEnv ==
  [PhysEnv EXCEPT !.sizes = {<<48, 48>>}, !.instants = {0, 16, 48},
                  !.reduced = {FALSE}, !.maxOrbs = CommuteMaxOrbs]

\* the scenario environment: the game environment with events handled at
\* 0, 200, 500 and 1700 ms
ScenarioEnv ==
  [GameEnv EXCEPT !.instants = {0, 200, 500, 1700}, !.stores = {NoStorage},
                  !.maxOrbs = ScenarioMaxOrbs]

\* ------------------------------------------------------------- Init
InitIn(E) ==
  /\ prefersReduced \in E.reduced
  /\ localStorage \in E.stores
  /\ score = 0
  /\ best = LoadBest(localStorage)
  /\ timeLeft = ROUND_SECONDS
  /\ running = FALSE
  /\ lastHitTime = 0
  /\ combo = 0
  /\ orbs = <<>>
  /\ raf = null
  /\ lastTs = null
  /\ timerId = null
  /\ \E s \in E.sizes : bounds = measure(s)
  /\ playBtnDisabled = FALSE
  /\ area = {}
  /\ frames = {}
  /\ intervals = {}
  /\ respawns = {}
  /\ clock = 0
  /\ orbSeq = 0
  /\ round = 0
  /\ ticks = 0
  /\ removed = {}
  /\ hitLog = <<>>
  /\ prevHit = null
  /\ ignoredLog = {}

\* ------------------------------------------------------------- startGame
\* measure(); clearGame(); reset; spawnOrbs(ORB_COUNT); startTimer();
\* requestAnimationFrame(step)
startGame(E) ==
  /\ orbSeq + ORB_COUNT <= E.maxOrbs
  /\ \E s \in E.sizes, ds \in E.tapes :
       LET b        == measure(s)
           cleared  == cancelAnimationFrame(frames, raf)
           stopped  == clearInterval(intervals, timerId)
           fresh    == spawnOrbs(<<>>, ORB_COUNT, ds, b, prefersReduced, orbSeq)
           interval == NewHandle(stopped)
           frame    == NewHandle(cleared)
       IN  /\ bounds' = b
           /\ orbs' = fresh
           /\ area' = (area \ OrbIds(orbs)) \cup OrbIds(fresh)
           /\ orbSeq' = orbSeq + ORB_COUNT
           /\ intervals' = stopped \cup {interval}
           /\ timerId' = interval
           /\ frames' = cleared \cup {frame}
           /\ raf' = frame
  /\ lastTs' = null
  /\ running' = TRUE
  /\ score' = 0
  /\ combo' = 0
  /\ lastHitTime' = 0
  /\ playBtnDisabled' = TRUE
  /\ timeLeft' = ROUND_SECONDS
  /\ round' = round + 1
  /\ ticks' = 0
  /\ hitLog' = <<>>
  /\ removed' = removed \cup Elems(orbs)
  /\ UNCHANGED <<best, prefersReduced, localStorage, respawns, clock, prevHit,
                 ignoredLog>>

\* playBtn 'click' listener: a disabled button dispatches no click
ClickPlay(E) == ~playBtnDisabled /\ startGame(E)

\* mutant: the keydown listener without its running test
KeyStartAlways(E) == startGame(E)

\* area 'keydown' listener with ' ' or 'Enter'
KeyStart(E) == ~running /\ startGame(E)

\* startGame() called while a round is running, which no listener does
Reenter(E) == running /\ startGame(E)

\* ------------------------------------------------------------- hitOrb
\* hitOrb(orb), handled at now() = clock
hitOrb(orb) ==
  LET t      == clock
      c      == NextCombo(t, lastHitTime, combo)
      points == Points(c)
      hit(o) == IF o.id = orb.id THEN [o EXCEPT !.alive = FALSE] ELSE o
  IN  IF Ignored(running, orb.alive)
        THEN /\ ignoredLog' =
                  ignoredLog \cup {IF ~running THEN "idle" ELSE "dead"}
             /\ UNCHANGED <<score, best, timeLeft, running, lastHitTime, combo,
                            orbs, raf, lastTs, timerId, bounds, prefersReduced,
                            localStorage, playBtnDisabled, area, frames,
                            intervals, respawns, clock, orbSeq, round, ticks,
                            removed, hitLog, prevHit>>
        ELSE /\ combo' = c
             /\ lastHitTime' = t
             /\ score' = score + points
             /\ orbs' = [i \in 1..Len(orbs) |-> hit(orbs[i])]
             /\ removed' = {hit(o) : o \in removed}
             /\ respawns' = respawns \cup {[orb |-> orb.id, round |-> round]}
             /\ hitLog' = Append(hitLog, <<t, c, points, orb.id>>)
             /\ prevHit' = t
             /\ UNCHANGED <<best, timeLeft, running, raf, lastTs, timerId,
                            bounds, prefersReduced, localStorage,
                            playBtnDisabled, area, frames, intervals, clock,
                            orbSeq, round, ticks, ignoredLog>>

\* the 'click' and 'keydown' listeners of an orb element in the game area
HitOrb(E) ==
  \E i \in E.slots : i <= Len(orbs) /\ orbs[i].id \in area /\ hitOrb(orbs[i])

\* hitOrb called on an orb that has left the list; its element has left the
\* game area with it, so no listener makes this call
CallHitOrb(E) == \E o \in removed : o.id \in E.calls /\ hitOrb(o)

\* ------------------------------------------------------------- respawn
\* the 200 ms timeout of hitOrb fires for pending entry p
respawn(E, p) ==
  /\ respawns' = respawns \ {p}
  /\ IF ~running
       THEN UNCHANGED <<orbs, area, orbSeq, removed>>
       ELSE /\ orbSeq < E.maxOrbs
            /\ \E d \in E.draws :
                 LET kept == SelectSeq(orbs, LAMBDA o : o.id # p.orb)
                 IN  /\ orbs' = Append(kept,
                                  makeOrb(orbSeq + 1, d, bounds, prefersReduced))
                     /\ area' = (area \ {p.orb}) \cup {orbSeq + 1}
                     /\ orbSeq' = orbSeq + 1
                     /\ removed' =
                          removed \cup {o \in Elems(orbs) : o.id = p.orb}
  /\ UNCHANGED <<score, best, timeLeft, running, lastHitTime, combo, raf,
                 lastTs, timerId, bounds, prefersReduced, localStorage,
                 playBtnDisabled, frames, intervals, clock, round, ticks,
                 hitLog, prevHit, ignoredLog>>

Respawn(E) == \E p \in respawns : respawn(E, p)

\* ------------------------------------------------------------- step
\* the pending frame callback h runs with timestamp ts = clock
step(h) ==
  /\ IF ~running
       THEN /\ frames' = frames \ {h}
            /\ UNCHANGED <<orbs, lastTs, raf>>
       ELSE LET dt   == FrameDt(clock, lastTs)
                left == frames \ {h}
                next == NewHandle(left)
            IN  /\ lastTs' = clock
                /\ orbs' = [i \in 1..Len(orbs) |-> stepOrb(orbs[i], dt, bounds)]
                /\ frames' = left \cup {next}
                /\ raf' = next
  /\ UNCHANGED <<score, best, timeLeft, running, lastHitTime, combo, timerId,
                 bounds, prefersReduced, localStorage, playBtnDisabled, area,
                 intervals, respawns, clock, orbSeq, round, ticks, removed,
                 hitLog, prevHit, ignoredLog>>

Step == \E h \in frames : step(h)

\* ------------------------------------------------------------- countdown
\* mutant: the best score never updated
NewBestNever(s, b) == b

\* mutant: the lower of the two kept
NewBestMin(s, b) == IF s < b THEN s ELSE b

\* mutant: the best score overwritten by every round's score
NewBestAlways(s, b) == s

\* endGame's best-score update
NewBest(s, b) == IF s > b THEN s ELSE b

\* mutant: the round ended one tick late
TimeUpLate(t) == t < 0

\* the interval callback's test for ending the round
TimeUp(t) == t <= 0

\* the interval callback of startTimer; endGame() and its clearGame() inline
tick(iv) ==
  /\ timeLeft' = timeLeft - 1
  /\ ticks' = ticks + 1
  /\ IF TimeUp(timeLeft - 1)
       THEN /\ running' = FALSE
            /\ frames' = cancelAnimationFrame(frames, raf)
            /\ raf' = null
            /\ lastTs' = null
            /\ intervals' = clearInterval(intervals, timerId)
            /\ timerId' = null
            /\ area' = area \ OrbIds(orbs)
            /\ orbs' = <<>>
            /\ removed' = removed \cup Elems(orbs)
            /\ playBtnDisabled' = FALSE
            /\ best' = NewBest(score, best)
            /\ localStorage' = IF score > best
                                 THEN StoreBest(localStorage, NewBest(score, best))
                                 ELSE localStorage
       ELSE UNCHANGED <<running, frames, raf, lastTs, intervals, timerId, area,
                        orbs, removed, playBtnDisabled, best, localStorage>>
  /\ UNCHANGED <<score, lastHitTime, combo, bounds, prefersReduced, respawns,
                 clock, orbSeq, round, hitLog, prevHit, ignoredLog>>

Tick == \E iv \in intervals : tick(iv)

\* ------------------------------------------------------------- resize
\* the window 'resize' listener: measure(), then clamp every orb of the list
Resize(E) ==
  /\ \E s \in E.sizes :
       /\ bounds' = measure(s)
       /\ orbs' = [i \in 1..Len(orbs) |-> resizeOrb(orbs[i], measure(s))]
  /\ UNCHANGED <<score, best, timeLeft, running, lastHitTime, combo, raf,
                 lastTs, timerId, prefersReduced, localStorage,
                 playBtnDisabled, area, frames, intervals, respawns, clock,
                 orbSeq, round, ticks, removed, hitLog, prevHit, ignoredLog>>

\* ------------------------------------------------------------- time
\* time passes: the next event is handled at a later reading of the clock
Advance(E) ==
  /\ \E t \in E.instants : t > clock /\ clock' = t
  /\ UNCHANGED <<score, best, timeLeft, running, lastHitTime, combo, orbs, raf,
                 lastTs, timerId, bounds, prefersReduced, localStorage,
                 playBtnDisabled, area, frames, intervals, respawns, orbSeq,
                 round, ticks, removed, hitLog, prevHit, ignoredLog>>

\* ------------------------------------------------------------- specifications
Init == InitIn(GameEnv)

Next ==
  \/ ClickPlay(GameEnv)
  \/ KeyStart(GameEnv)
  \/ HitOrb(GameEnv)
  \/ Respawn(GameEnv)
  \/ Step
  \/ Tick
  \/ Resize(GameEnv)
  \/ Advance(GameEnv)

Spec == Init /\ [][Next]_vars

\* the same with the countdown interval delivered fairly
FairSpec == Spec /\ WF_vars(Tick)

\* the same with startGame() also invoked in the middle of a round
ReentryNext == Next \/ Reenter(GameEnv)

ReentrySpec == Init /\ [][ReentryNext]_vars

\* the same with hitOrb also called on orbs that have left the list, the
\* page starting without a stored best score
CallInit == InitIn(CallEnv)

CallNext ==
  \/ ClickPlay(CallEnv)
  \/ KeyStart(CallEnv)
  \/ HitOrb(CallEnv)
  \/ CallHitOrb(CallEnv)
  \/ Respawn(CallEnv)
  \/ Step
  \/ Tick
  \/ Resize(CallEnv)
  \/ Advance(CallEnv)

CallSpec == CallInit /\ [][CallNext]_vars

\* motion and countdown together
CommuteInit == InitIn(CommuteEnv)

CommuteNext ==
  \/ ClickPlay(CommuteEnv)
  \/ KeyStart(CommuteEnv)
  \/ HitOrb(CommuteEnv)
  \/ Respawn(CommuteEnv)
  \/ Step
  \/ Tick
  \/ Resize(CommuteEnv)
  \/ Advance(CommuteEnv)

CommuteSpec == CommuteInit /\ [][CommuteNext]_vars

\* the scenario environment
ScenarioInit == InitIn(ScenarioEnv)

ScenarioNext ==
  \/ ClickPlay(ScenarioEnv)
  \/ KeyStart(ScenarioEnv)
  \/ HitOrb(ScenarioEnv)
  \/ Respawn(ScenarioEnv)
  \/ Step
  \/ Tick
  \/ Resize(ScenarioEnv)
  \/ Advance(ScenarioEnv)

ScenarioSpec == ScenarioInit /\ [][ScenarioNext]_vars

\* the motion of the orbs in the first 80 ms after the page has loaded: the
\* 1000 ms countdown interval and the 200 ms respawn timeouts are not due yet
PhysInit == InitIn(PhysEnv)

PhysNext ==
  \/ ClickPlay(PhysEnv)
  \/ KeyStart(PhysEnv)
  \/ HitOrb(PhysEnv)
  \/ Step
  \/ Resize(PhysEnv)
  \/ Advance(PhysEnv)

PhysSpec == PhysInit /\ [][PhysNext]_vars

\* ------------------------------------------------------------- claims
\* a step in which hitOrb handled a successful hit (only it extends hitLog)
HitHandled == Len(hitLog') = Len(hitLog) + 1

\* the fields of a hitLog entry
HitTime(e) == e[1]
HitCombo(e) == e[2]
HitPoints(e) == e[3]
HitOrbId(e) == e[4]

\* C1: every successful hit adds BASE_POINTS * (1 + min(c, 5)) to score, c
\* being combo after the hit's combo update; so one hit adds at least
\* BASE_POINTS and at most 6 * BASE_POINTS, however long the chain.
C1_PointsCapped ==
  [][HitHandled =>
       /\ score' - score =
            BASE_POINTS * (1 + (IF combo' < 5 THEN combo' ELSE 5))
       /\ score' - score >= BASE_POINTS
       /\ score' - score <= 6 * BASE_POINTS]_vars

\* C1 witness: a hit whose combo is past the cap has been scored at 6 times
\* the base
C1_Witness ==
  /\ hitLog # <<>>
  /\ HitCombo(hitLog[Len(hitLog)]) > 5
  /\ HitPoints(hitLog[Len(hitLog)]) = 6 * BASE_POINTS
  /\ combo > 5

\* C2 as stated: on every successful hit, more than COMBO_WINDOW_MS after the
\* previous successful hit combo becomes 0 and the hit awards BASE_POINTS; at
\* most COMBO_WINDOW_MS after it combo is the previous combo plus one.
C2_AsStated ==
  [][(HitHandled /\ prevHit # null) =>
       IF clock - prevHit > COMBO_WINDOW_MS
         THEN combo' = 0 /\ score' - score = BASE_POINTS
         ELSE combo' = combo + 1]_vars

\* C2 amended: the same for every successful hit that has a previous
\* successful hit in the same round, the elapsed time being measured from
\* that hit.
C2_ComboWindow ==
  [][(HitHandled /\ hitLog # <<>>) =>
       IF clock - HitTime(hitLog[Len(hitLog)]) > COMBO_WINDOW_MS
         THEN combo' = 0 /\ score' - score = BASE_POINTS
         ELSE combo' = combo + 1]_vars

\* C2 witness: a round holds a hit exactly COMBO_WINDOW_MS after the one
\* before it, which raised the combo, and a later hit more than
\* COMBO_WINDOW_MS after its predecessor, which reset it
C2_Witness ==
  /\ Len(hitLog) >= 3
  /\ \E i \in 2..Len(hitLog) :
       /\ HitTime(hitLog[i]) - HitTime(hitLog[i - 1]) = COMBO_WINDOW_MS
       /\ HitCombo(hitLog[i]) = HitCombo(hitLog[i - 1]) + 1
  /\ LET n == Len(hitLog)
     IN  /\ HitTime(hitLog[n]) - HitTime(hitLog[n - 1]) > COMBO_WINDOW_MS
         /\ HitCombo(hitLog[n]) = 0
         /\ HitPoints(hitLog[n]) = BASE_POINTS

\* C3: a round whose four hits are handled at 0, 200, 500 and 1700 ms has
\* combos 0, 1, 2, 0, points 10, 20, 30, 10 and score 70 after the fourth
\* hit; the first hit of the round has combo 0.
C3_Scenario ==
  (/\ Len(hitLog) = 4
   /\ [i \in 1..4 |-> HitTime(hitLog[i])] = <<0, 200, 500, 1700>>)
    => /\ [i \in 1..4 |-> HitCombo(hitLog[i])] = <<0, 1, 2, 0>>
       /\ [i \in 1..4 |-> HitPoints(hitLog[i])] = <<10, 20, 30, 10>>
       /\ score = 70

\* C4: while a round is running the active set holds exactly ORB_COUNT orbs,
\* across hits, respawn callbacks, ticks, frame updates, resizes and
\* restarts (the claim's invariant; each hit being replaced in the end is
\* its second half).
C4_OrbCount == running => Len(orbs) = ORB_COUNT

\* a step in which the respawn callback scheduled for p ran
CallbackFires(p) == p \in respawns /\ respawns' = respawns \ {p}

\* C5: a respawn callback does nothing when the round in which its hit was
\* made has ended before it fires, also when a new round is running by then:
\* it removes no orb, spawns no orb and changes no state.
C5_StaleRespawnNoop ==
  [][\A p \in respawns :
       (CallbackFires(p) /\ (~running \/ p.round # round))
         => UNCHANGED <<score, best, timeLeft, running, lastHitTime, combo,
                        orbs, raf, lastTs, timerId, bounds, localStorage,
                        playBtnDisabled, area, frames, intervals, orbSeq>>]_vars

\* a step in which endGame ran
GameEnded == running /\ ~running'

\* C6: endGame with score > best makes the in-memory best and the value
\* stored under 'jk_best_score' exactly score; with score <= best it leaves
\* both unchanged.
C6_BestUpdate ==
  [][GameEnded =>
       IF score > best
         THEN /\ best' = score
              /\ BEST_KEY \in DOMAIN localStorage'
              /\ LoadBest(localStorage') = score
         ELSE best' = best /\ localStorage' = localStorage]_vars

\* C6 witness: a round has ended with a score above every best score the
\* page can start with, and the score is the best in memory and in storage
C6_Witness ==
  /\ ~running /\ round > 0
  /\ score > 20
  /\ best = score
  /\ BEST_KEY \in DOMAIN localStorage
  /\ LoadBest(localStorage) = score

\* a step in which the countdown interval's callback ran
TickDelivered == ticks' = ticks + 1

\* C7: timeLeft starts at ROUND_SECONDS, every tick takes exactly one off,
\* the ROUND_SECONDS-th tick after startGame leaves timeLeft = 0 and ends the
\* round; with ticks delivered fairly a running round always ends; and no
\* tick of a round fires once the round has ended (the only interval ever
\* active is the running round's own).
C7_Countdown ==
  /\ [](running => /\ timeLeft = ROUND_SECONDS - ticks
                   /\ ticks < ROUND_SECONDS
                   /\ intervals = {timerId})
  /\ [](~running => intervals = {})
  /\ [][TickDelivered =>
          /\ running
          /\ timeLeft' = timeLeft - 1
          /\ (ticks' = ROUND_SECONDS) = (timeLeft' = 0)
          /\ (timeLeft' = 0) = (~running')]_vars
  /\ (running ~> ~running)

\* C7 witness: a round has run down to its last tick and ended
C7_Witness == ~running /\ ticks = ROUND_SECONDS /\ timeLeft = 0

\* a step in which startGame ran while a round was running
Restarted == running /\ round' = round + 1

\* C8: startGame invoked in the middle of a round, whatever hits were made
\* and whatever respawns are pending, leaves score = 0, combo = 0, the
\* last-hit time at its initial value, timeLeft = ROUND_SECONDS and exactly
\* ORB_COUNT freshly spawned orbs, none of the prior round; and no callback
\* of a prior round later adds an orb to, or removes one from, the new round.
C8_RestartResets ==
  [][/\ Restarted =>
          /\ score' = 0 /\ combo' = 0 /\ lastHitTime' = 0
          /\ timeLeft' = ROUND_SECONDS
          /\ Len(orbs') = ORB_COUNT
          /\ \A i \in 1..Len(orbs') :
               /\ orbs'[i].alive
               /\ orbs'[i].id > orbSeq
               /\ orbs'[i].id \notin OrbIds(orbs)
          /\ area' = OrbIds(orbs')
     /\ \A p \in respawns :
          (CallbackFires(p) /\ p.round # round)
            => orbs' = orbs /\ area' = area]_vars

\* a step in which step() ran its frame update
FrameUpdate == running /\ Step

InX(o, b) == 12000 <= o.x /\ o.x <= b.w - 12000
InY(o, b) == 12000 <= o.y /\ o.y <= b.h - 12000

\* C9 as stated: after every frame update each alive orb has x in
\* [12, bounds.w - 12] and y in [12, bounds.h - 12], for every surface size.
C9_AsStated ==
  [][FrameUpdate =>
       \A i \in 1..Len(orbs') :
         orbs'[i].alive => InX(orbs'[i], bounds) /\ InY(orbs'[i], bounds)]_vars

\* C9 amended: after every frame update each alive orb has x in
\* [12, bounds.w - 12] when bounds.w is at least 24, and y in
\* [12, bounds.h - 12] when bounds.h is at least 24.
C9_InBounds ==
  [][FrameUpdate =>
       \A i \in 1..Len(orbs') :
         orbs'[i].alive =>
           /\ bounds.w >= 24000 => InX(orbs'[i], bounds)
           /\ bounds.h >= 24000 => InY(orbs'[i], bounds)]_vars

\* C9 witness: on a 48 px surface a frame update has put back, at the left
\* margin, an orb that was drawn heading left and now heads right
C9_Witness ==
  /\ running /\ lastTs # null /\ bounds.w = 48000
  /\ \E i \in 1..Len(orbs) :
       /\ orbs[i].alive /\ orbs[i].id = 1
       /\ orbs[i].x = 12000 /\ orbs[i].vx > 0

\* the elapsed time step() integrates with, in ms
ElapsedMs == IF lastTs = null THEN 0
             ELSE IF clock - lastTs < 32 THEN clock - lastTs ELSE 32

CrossesX(o) ==
  \/ o.x + o.vx * ElapsedMs < 12000
  \/ o.x + o.vx * ElapsedMs > bounds.w - 12000

CrossesY(o) ==
  \/ o.y + o.vy * ElapsedMs < 12000
  \/ o.y + o.vy * ElapsedMs > bounds.h - 12000

\* C10 as stated: in a frame update an alive orb that crosses a left or
\* right edge has vx inverted, one that crosses a top or bottom edge has vy
\* inverted, and a component whose axis crosses no edge is unchanged.
C10_AsStated ==
  [][FrameUpdate =>
       \A i \in 1..Len(orbs) :
         orbs[i].alive =>
           /\ orbs'[i].vx = IF CrossesX(orbs[i]) THEN -orbs[i].vx
                            ELSE orbs[i].vx
           /\ orbs'[i].vy = IF CrossesY(orbs[i]) THEN -orbs[i].vy
                            ELSE orbs[i].vy]_vars

\* C10 amended: the same for each axis on which the orb's coordinate is
\* within [12, size - 12] when the frame update begins.
C10_Bounce ==
  [][FrameUpdate =>
       \A i \in 1..Len(orbs) :
         orbs[i].alive =>
           /\ InX(orbs[i], bounds) =>
                orbs'[i].vx = IF CrossesX(orbs[i]) THEN -orbs[i].vx
                              ELSE orbs[i].vx
           /\ InY(orbs[i], bounds) =>
                orbs'[i].vy = IF CrossesY(orbs[i]) THEN -orbs[i].vy
                              ELSE orbs[i].vy]_vars

\* C10 witness: on a 48 px surface the orb drawn heading up at 139 px/s has
\* bounced off the top margin: vy is inverted, vx is as drawn
C10_Witness ==
  /\ running /\ lastTs # null /\ bounds.h = 48000
  /\ \E i \in 1..Len(orbs) :
       /\ orbs[i].alive /\ orbs[i].id = 3
       /\ orbs[i].y = 12000 /\ orbs[i].vy = 139 /\ orbs[i].vx = 0

\* the orb objects hitOrb can be called on: those of the list and those
\* that have left it
Callable == Elems(orbs) \cup removed

\* C11: hitOrb called while no round is running, or on an orb whose alive
\* flag is already false, changes nothing: score, combo, the last-hit time,
\* the orb set, every alive flag and the pending respawns are unchanged.  So
\* every scoring hit is on an orb that was alive and leaves it not alive, an
\* orb that is not alive never becomes alive again, and no orb scores twice
\* in a round.
C11_HitGuard ==
  /\ [][\A o \in Callable :
          (hitOrb(o) /\ (~running \/ ~o.alive))
            => UNCHANGED <<score, combo, lastHitTime, orbs, removed, respawns,
                           area, orbSeq, hitLog, prevHit>>]_vars
  /\ [][HitHandled =>
          /\ running
          /\ \E o \in Callable :
               /\ o.alive
               /\ HitOrbId(hitLog'[Len(hitLog')]) = o.id
               /\ \A q \in Callable' : q.id = o.id => ~q.alive]_vars
  /\ [][\A o \in Callable :
          ~o.alive => \A q \in Callable' : q.id = o.id => ~q.alive]_vars
  /\ [](\A i, j \in 1..Len(hitLog) :
          HitOrbId(hitLog[i]) = HitOrbId(hitLog[j]) => i = j)

\* C11 witness: a round with one scoring hit has ended; hitOrb calls have
\* returned at the guard both for an orb that was not alive and for a call
\* made while no round was running, and the score is that of the one hit
C11_Witness ==
  /\ ~running /\ round = 1
  /\ ignoredLog = {"idle", "dead"}
  /\ Len(hitLog) = 1
  /\ score = HitPoints(hitLog[1])

\* C12: whenever no round is running the orb list is empty, no orb element
\* is in the game area, no countdown interval is active and no frame
\* callback is pending: initially, after endGame, and after every callback
\* or event that arrives while no round is running.
C12_IdleIsClean ==
  ~running => /\ orbs = <<>>
              /\ area = {}
              /\ intervals = {} /\ timerId = null
              /\ frames = {} /\ raf = null

\* C12 witness: the first round has ended after one hit, and the hit's
\* respawn callback has fired after the end, creating no orb
C12_Witness ==
  /\ ~running /\ round = 1
  /\ Len(hitLog) = 1
  /\ respawns = {}
  /\ orbSeq = ORB_COUNT
  /\ orbs = <<>> /\ intervals = {} /\ frames = {}

\* a step in which startGame ran
Started == round' = round + 1

\* C13: the start control is disabled exactly while a round is running; the
\* click and keydown listeners never run startGame during a running round;
\* a round starts only from idle by startGame and ends only by the
\* countdown's endGame, so the state alternates Idle -> Running -> Idle.
C13_StartOnlyIdle ==
  /\ [](playBtnDisabled = running)
  /\ [][Started => ~running /\ running']_vars
  /\ [][(~running /\ running') => Started]_vars
  /\ [][(running /\ ~running') => (TickDelivered /\ round' = round)]_vars

\* C13 witness: a second round is running after the first one has ended,
\* and the start control is disabled again
C13_Witness ==
  /\ running /\ round = 2
  /\ playBtnDisabled
  /\ prevHit # null /\ hitLog = <<>> /\ best > 0

\* the round state: everything the countdown callback or the frame callback
\* reads or writes, but for the orb objects that have left the list
View ==
  [running |-> running, score |-> score, combo |-> combo,
   lastHitTime |-> lastHitTime, timeLeft |-> timeLeft, orbs |-> orbs,
   area |-> area, best |-> best,
   localStorage |-> localStorage, playBtnDisabled |-> playBtnDisabled,
   raf |-> raf, lastTs |-> lastTs, timerId |-> timerId, frames |-> frames,
   intervals |-> intervals, respawns |-> respawns]

\* the round state after the countdown callback, as a function of the round
\* state v before it; a cleared interval delivers nothing
AfterTick(v) ==
  IF v.intervals = {} THEN v
  ELSE IF TimeUp(v.timeLeft - 1)
    THEN [v EXCEPT !.timeLeft = v.timeLeft - 1,
                   !.running = FALSE,
                   !.frames = cancelAnimationFrame(v.frames, v.raf),
                   !.raf = null,
                   !.lastTs = null,
                   !.intervals = clearInterval(v.intervals, v.timerId),
                   !.timerId = null,
                   !.area = v.area \ OrbIds(v.orbs),
                   !.orbs = <<>>,
                   !.playBtnDisabled = FALSE,
                   !.best = NewBest(v.score, v.best),
                   !.localStorage =
                      IF v.score > v.best
                        THEN StoreBest(v.localStorage, NewBest(v.score, v.best))
                        ELSE v.localStorage]
    ELSE [v EXCEPT !.timeLeft = v.timeLeft - 1]

\* the round state after the frame callback with timestamp clock, as a
\* function of the round state v before it; a cancelled callback does not run
AfterStep(v) ==
  IF v.frames = {} THEN v
  ELSE LET h    == CHOOSE f \in v.frames : TRUE
           left == v.frames \ {h}
           next == NewHandle(left)
           dt   == FrameDt(clock, v.lastTs)
       IN  IF ~v.running
             THEN [v EXCEPT !.frames = left]
             ELSE [v EXCEPT !.lastTs = clock,
                            !.orbs = [i \in 1..Len(v.orbs) |->
                                        stepOrb(v.orbs[i], dt, bounds)],
                            !.frames = left \cup {next},
                            !.raf = next]

\* C14: a countdown tick and a frame update that are both pending commute.
\* AfterTick and AfterStep are what the two callbacks do to the round state
\* (first two conjuncts); from every running state with both pending, tick
\* then frame update gives the round state that frame update then tick
\* gives, also when the tick is the one that ends the round.
C14_TickStepCommute ==
  /\ [][TickDelivered => View' = AfterTick(View)]_vars
  /\ [][Step => View' = AfterStep(View)]_vars
  /\ []((running /\ intervals # {} /\ frames # {})
          => AfterStep(AfterTick(View)) = AfterTick(AfterStep(View)))

\* C14 witness: the round's last tick and a frame update that moves the orbs
\* by 32 ms are both pending, and the two orders agree
C14_Witness ==
  /\ running /\ timeLeft = 1
  /\ intervals # {} /\ frames # {}
  /\ lastTs = 16 /\ clock = 48
  /\ \E i \in 1..Len(orbs) : orbs[i].alive /\ orbs[i].vx # 0
  /\ AfterStep(View).orbs # orbs
  /\ ~AfterTick(View).running
  /\ AfterStep(AfterTick(View)) = AfterTick(AfterStep(View))

\* the points of a round's scoring hits, added up
RECURSIVE SumPoints(_)
SumPoints(log) ==
  IF log = <<>> THEN 0
  ELSE SumPoints(SubSeq(log, 1, Len(log) - 1)) + HitPoints(log[Len(log)])

\* C15: the score is at every moment the sum of the points of the hits
\* handled since startGame; endGame changes neither, compares exactly that
\* score with best (so best is then at least it), whether or not a hit's
\* respawn callback is still pending; and once the round has ended a hit
\* adds nothing.
C15_HitsCounted ==
  /\ [](score = SumPoints(hitLog))
  /\ [][GameEnded =>
          /\ score' = score /\ hitLog' = hitLog
          /\ best' >= score
          /\ (score > best => best' = SumPoints(hitLog))]_vars
  /\ [][(~running /\ ~running') => (score' = score /\ hitLog' = hitLog)]_vars

\* C15 witness: the first round has ended with its last hit's respawn still
\* pending; the hit's points are in the final score, which is the best
\* score; a hitOrb call made after the end has added nothing
C15_Witness ==
  /\ ~running /\ round = 1
  /\ respawns # {}
  /\ hitLog # <<>>
  /\ score = SumPoints(hitLog) /\ score > 0
  /\ best = score
  /\ "idle" \in ignoredLog

\* v2 is v moved into [12, size - 12] as the claim says: unchanged when
\* inside, else at the end of the range nearest to v
MovedInto(v, v2, size) ==
  LET lo == 12000
      hi == size - 12000
  IN  IF lo <= v /\ v <= hi
        THEN v2 = v
        ELSE /\ v2 \in {lo, hi}
             /\ \A e \in {lo, hi} : Abs(v - v2) <= Abs(v - e)

\* what a resize leaves alone: all but the bounds and the orbs' positions
ResizeFrame ==
  /\ Len(orbs') = Len(orbs)
  /\ \A i \in 1..Len(orbs) :
       /\ orbs'[i].id = orbs[i].id
       /\ orbs'[i].alive = orbs[i].alive
       /\ orbs'[i].vx = orbs[i].vx
       /\ orbs'[i].vy = orbs[i].vy
  /\ UNCHANGED <<score, best, timeLeft, running, lastHitTime, combo, raf,
                 lastTs, timerId, localStorage, playBtnDisabled, area, frames,
                 intervals, respawns, removed, orbSeq>>

\* C16 as stated: the resize listener changes only the bounds and the orbs'
\* positions; a coordinate within [12, newSize - 12] is unchanged, one
\* outside is moved to the nearest end of that range, for every new size.
C16_AsStated ==
  [][Resize(PhysEnv) =>
       /\ ResizeFrame
       /\ \A i \in 1..Len(orbs) :
            /\ MovedInto(orbs[i].x, orbs'[i].x, bounds'.w)
            /\ MovedInto(orbs[i].y, orbs'[i].y, bounds'.h)]_vars

\* C16 amended: the same for each axis whose new size is at least 24 px; on
\* a smaller one every coordinate becomes 12.
C16_ResizeClamps ==
  [][Resize(PhysEnv) =>
       /\ ResizeFrame
       /\ \A i \in 1..Len(orbs) :
            /\ IF bounds'.w >= 24000
                 THEN MovedInto(orbs[i].x, orbs'[i].x, bounds'.w)
                 ELSE orbs'[i].x = 12000
            /\ IF bounds'.h >= 24000
                 THEN MovedInto(orbs[i].y, orbs'[i].y, bounds'.h)
                 ELSE orbs'[i].y = 12000]_vars

\* C16 witness: before any frame update, a resize to 30 px has moved the orb
\* spawned at x = 27.2 px on the 48 px surface to x = 18 px, its velocity as
\* drawn
C16_Witness ==
  /\ running /\ lastTs = null /\ bounds.w = 30000
  /\ \E i \in 1..Len(orbs) :
       /\ orbs[i].id = 2 /\ orbs[i].alive
       /\ orbs[i].x = 18000
       /\ orbs[i].vx = 139 /\ orbs[i].vy = 0

\* the boundary handling of step() for one coordinate p
Bounced(p, size) ==
  LET q == IF p < 12000 THEN 12000 ELSE p
  IN  IF q > size - 12000 THEN size - 12000 ELSE q

\* C17: a frame update integrates with min(32 ms, time since the previous
\* frame), 0 for the first frame after startGame: before the boundary
\* handling an alive orb's coordinate has changed by velocity times that
\* time, at most |velocity| * 32 ms, whatever the gap between the frame
\* timestamps; an orb that is not alive is not moved at all.
C17_FrameDt ==
  [][FrameUpdate =>
       /\ lastTs' = clock
       /\ ElapsedMs >= 0 /\ ElapsedMs <= 32
       /\ lastTs = null => ElapsedMs = 0
       /\ \A i \in 1..Len(orbs) :
            IF ~orbs[i].alive
              THEN orbs'[i] = orbs[i]
              ELSE LET px == orbs[i].x + orbs[i].vx * ElapsedMs
                       py == orbs[i].y + orbs[i].vy * ElapsedMs
                   IN  /\ Abs(px - orbs[i].x) <= Abs(orbs[i].vx) * 32
                       /\ Abs(py - orbs[i].y) <= Abs(orbs[i].vy) * 32
                       /\ orbs'[i].x = Bounced(px, bounds.w)
                       /\ orbs'[i].y = Bounced(py, bounds.h)]_vars

\* C17 witness: on the 48 px surface a frame at 80 ms has moved the slow orb
\* (32 and 24 px/s, spawned at the centre) by 32 ms of travel and no more,
\* and has left the popped orb where it was hit
C17_Witness ==
  /\ running /\ lastTs = 80 /\ bounds = [w |-> 48000, h |-> 48000]
  /\ \E i \in 1..Len(orbs) :
       /\ orbs[i].id = 6 /\ orbs[i].alive
       /\ orbs[i].x = 24000 + 32 * 32
       /\ orbs[i].y = 24000 + 24 * 32
  /\ \E i \in 1..Len(orbs) :
       /\ orbs[i].id = 1 /\ ~orbs[i].alive
       /\ orbs[i].x = 20000 /\ orbs[i].y = 24000

\* C18: best never decreases; the value stored under 'jk_best_score', read
\* as the script reads it, always equals the in-memory best (and a stored
\* string is String(best)); after every endGame best is at least the score
\* of the round that ended; best and the stored value change in no step
\* other than endGame.
C18_BestMonotone ==
  /\ [](LoadBest(localStorage) = best)
  /\ [](BEST_KEY \in DOMAIN localStorage
          => localStorage[BEST_KEY] = String(best))
  /\ [][best' >= best]_vars
  /\ [][GameEnded => best' >= score]_vars
  /\ [][(best' # best \/ localStorage' # localStorage) => GameEnded]_vars

\* C18 witness: on a page that started without a stored best, a first round
\* ended with 10 points and a second one with none: best and the stored
\* value are still the first round's 10
C18_Witness ==
  /\ ~running /\ round = 2
  /\ score = 0
  /\ best = 10
  /\ BEST_KEY \in DOMAIN localStorage
  /\ localStorage[BEST_KEY] = <<"1", "0">>

\* C19: at most one countdown interval is active and at most one frame
\* callback is pending at any time, across starts, ends and restarts in the
\* middle of a round; and timeLeft stays within 0..ROUND_SECONDS.
C19_OneTimerOneFrame ==
  /\ Cardinality(intervals) <= 1
  /\ Cardinality(frames) <= 1
  /\ timeLeft \in 0..ROUND_SECONDS

\* C19 witness: startGame has run again in the middle of the first round (a
\* hit of that round is on record, but no round has ended with points), and
\* the new round has one interval and one pending frame callback
C19_Witness ==
  /\ running /\ round = 2
  /\ hitLog = <<>> /\ prevHit # null /\ best = 0
  /\ timeLeft < ROUND_SECONDS
  /\ Cardinality(intervals) = 1
  /\ Cardinality(frames) = 1

====
